---- MODULE Spec2Model ----
(***************************************************************************)
(* Webhook ingestion pipeline of balances-app: the structured (v2) webhook *)
(* handlers, the free-text (SMS) webhook handlers, V2DatabaseService and   *)
(* the repositories in between, over a relational store with uniqueness    *)
(* constraints.  Every await on the store is one step of a request, so     *)
(* requests interleave exactly where the handlers can be pre-empted.       *)
(***************************************************************************)
EXTENDS Naturals, Integers, Sequences, FiniteSets, TLC

\* ---------------------------------------------------------------- bounds
NumRequests == 2
MaxFaults == 1
MaxAdminOps == 1
MaxTicks == 3
MaxDays == 3
MaxSubscriptionOps == 4
MaxInits == 2
MaxAdvances == 3
MaxCalls == 3

Requests == 1..NumRequests
WebhookIds == {"wh_1", "wh_2"}
\* routing addresses as character sequences: an email and a phone number
EmailTo == <<"a", "@", "x", ".", "c", "o">>
PhoneTo == <<"+", "5", "7", "3", "0", "0", "1", "2", "3", "4", "5">>
SourceTos == {EmailTo, PhoneTo}
Users == {"u1"}
Handlers == {"repo", "direct"}

VARIABLES
  sources,         \* table public.sources
  userSources,     \* table public.user_sources
  v2Transactions,  \* table public.v2_transactions
  transactions,    \* table transactions (free-text path)
  parseErrors,     \* table parse_errors
  nextId,          \* next value gen_random_uuid() hands out
  faults,          \* number of storage failures so far
  req,             \* structured webhook requests in flight
  sms,             \* free-text webhook requests in flight
  admin,           \* subscription changes made so far and the last result
  handler,         \* the POST handler deployed at the route
  env,             \* the request whose envelope was validated last
  now,             \* Date.now() in milliseconds
  rateLimitMap,    \* rateLimitMap of the WebhookService constructed last
  passed,          \* requests that passed the rate-limit check in the window
  logger,          \* the Logger singleton of lib/logger
  session,         \* browser: localStorage session, clock, activity listeners
  auth,            \* browser: the auth store and its initializeAuth calls
  calc             \* the call of a pure function made last: inputs, result

clientVars == <<logger, session, auth, calc>>

serverVars == <<sources, userSources, v2Transactions, transactions,
                parseErrors, nextId, faults, req, sms, admin, handler, env,
                now, rateLimitMap, passed>>

envVars == <<env, now, rateLimitMap, passed, logger, session, auth, calc>>

vars == <<sources, userSources, v2Transactions, transactions, parseErrors,
          nextId, faults, req, sms, admin, handler, env, now, rateLimitMap,
          passed, logger, session, auth, calc>>

\* ------------------------------------------------------------- responses
NoResponse ==
  [status |-> "none", http |-> 0, error |-> "", transactionId |-> 0,
   sourceId |-> 0]

IdleRequest ==
  [pc |-> "idle", webhookId |-> "wh_1", sourceTo |-> EmailTo,
   sourceType |-> "email", source |-> 0, usersFetched |-> FALSE,
   userIds |-> {}, txError |-> <<>>,
   faulted |-> FALSE, srcRefused |-> FALSE, txRefused |-> FALSE,
   sawProcessed |-> FALSE, response |-> NoResponse]

IdleSms ==
  [pc |-> "idle", webhookId |-> "wh_1", message |-> "", parseable |-> TRUE,
   parsed |-> FALSE, logFailed |-> FALSE, faulted |-> FALSE,
   txRefused |-> FALSE, response |-> NoResponse]

\* a storage call may fail while the failure budget lasts
FaultChoices == IF faults < MaxFaults THEN {FALSE, TRUE} ELSE {FALSE}

\* String.prototype.includes on a message built from template fragments
Includes(msg, needle) == \E i \in 1..Len(msg) : msg[i] = needle

\* ------------------------------------------------------ source inference
Contains(s, ch) == \E i \in 1..Len(s) : s[i] = ch
StartsWith(s, ch) == Len(s) > 0 /\ s[1] = ch

InferSourceTypePlusFirst(sourceTo) ==
  IF StartsWith(sourceTo, "+") THEN "phone"
  ELSE IF Contains(sourceTo, "@") THEN "email"
  ELSE "webhook"
InferSourceType(sourceTo) ==
  IF Contains(sourceTo, "@") THEN "email"
  ELSE IF StartsWith(sourceTo, "+") THEN "phone"
  ELSE "webhook"

\* ------------------------------------------------------------ the store
\* UNIQUE(source_type, source_value)
SourceUniqueNoConstraint(rows, sourceType, sourceValue) == TRUE
SourceUnique(rows, sourceType, sourceValue) ==
  ~ \E s \in rows : s.sourceType = sourceType /\ s.sourceValue = sourceValue

\* webhook_id VARCHAR(255) UNIQUE NOT NULL
WebhookIdUniqueNoConstraint(rows, webhookId) == TRUE
WebhookIdUnique(rows, webhookId) ==
  ~ \E t \in rows : t.webhookId = webhookId

\* .from('sources').select('*').eq('source_type',..).eq('source_value',..)
SelectSource(sourceType, sourceValue) ==
  {s \in sources : s.sourceType = sourceType /\ s.sourceValue = sourceValue}

\* .from('v2_transactions').select('id, webhook_id').eq('webhook_id', ..)
SelectV2ByWebhookId(webhookId) ==
  {t \in v2Transactions : t.webhookId = webhookId}

\* getUsersForSource: user ids of the active user_sources rows of a source
getUsersForSource(sourceId) ==
  {u.userId : u \in {x \in userSources : x.sourceId = sourceId /\ x.isActive}}

\* TransactionRepository.getV2TransactionByWebhookId: the row or nothing
getV2TransactionByWebhookIdNothing(webhookId) == {}
getV2TransactionByWebhookId(webhookId) ==
  {t \in v2Transactions : t.webhookId = webhookId}

\* ------------------------------------------------------ request envelope
\* request.headers.get(..) of a header the request does not carry
NoHeader == -1

\* process.env.WEBHOOK_SECRET
WebhookSecret == "s3cr3t"

\* x-forwarded-for || x-real-ip || 'unknown'
ClientIP == "unknown"

\* request.url of the two routes, as fragments
V2Url == <<"https://host/api", "/v2/", "webhook/transaction">>
SmsUrl == <<"https://host/api", "/webhook/sms">>
Urls == {V2Url, SmsUrl}

\* header values a caller may send; a timestamp is given by its age
Authorizations ==
  {<<>>, <<"Basic ", WebhookSecret>>, <<"Bearer ", "wrong-token">>,
   <<"Bearer ", WebhookSecret>>}
ContentLengths == {NoHeader, 10001, 20001}
ContentTypes == {<<"text/plain">>, <<"application/json", "; charset=utf-8">>}
NoTimestamp == [present |-> FALSE, valid |-> FALSE, age |-> 0]
Timestamps ==
  {NoTimestamp, [present |-> TRUE, valid |-> FALSE, age |-> 0]}
  \cup {[present |-> TRUE, valid |-> TRUE, age |-> a] :
          a \in {300000, 300001, 600001}}
NoHeaders ==
  [authorization |-> <<>>, contentLength |-> NoHeader,
   contentType |-> <<"text/plain">>, timestamp |-> NoTimestamp]
PlainHeaders ==
  [authorization |-> <<"Bearer ", WebhookSecret>>, contentLength |-> NoHeader,
   contentType |-> <<"application/json", "; charset=utf-8">>,
   timestamp |-> NoTimestamp]
\* the header sets sent: no more than two headers differ from PlainHeaders
HeaderSets ==
  {h \in [authorization : Authorizations, contentLength : ContentLengths,
          contentType : ContentTypes, timestamp : Timestamps] :
     \E f, g \in DOMAIN PlainHeaders :
       \A k \in DOMAIN PlainHeaders \ {f, g} : h[k] = PlainHeaders[k]}

\* an optional JSON field: absent, or a string given by its characters
Undefined == [present |-> FALSE, value |-> <<>>]
Str(s) == [present |-> TRUE, value |-> s]

UpperLetters == {"C", "O", "P", "A"}
Whitespace == {" "}
Digits == {"0", "1", "2", "3", "4", "5", "6", "7", "8", "9"}

\* payload fields a caller may send
UpperEmailTo == <<"A", "@", "x", ".", "c", "o">>
PaddedEmailTo == <<" ", "a", "@", "x", ".", "c", "o", " ">>
ParseableSms == "Bancolombia: Recibiste una transferencia por $190,000"
UnparseableSms == "Su codigo de verificacion es 1234"
SmsMessages == {ParseableSms, UnparseableSms}

\* a body that was not read, or that request.json() cannot parse
UnreadBody ==
  [json |-> FALSE, wellFormed |-> FALSE, webhookId |-> "",
   sourceTo |-> <<>>, currency |-> Undefined, message |-> ""]
V2Body(w, to, c) ==
  [json |-> TRUE, wellFormed |-> TRUE, webhookId |-> w, sourceTo |-> to,
   currency |-> c, message |-> ParseableSms]
V2Bodies ==
  {UnreadBody, V2Body("wh_1", PaddedEmailTo, Undefined),
   V2Body("wh_1", EmailTo, Str(<<"c", "o", "p">>))} \cup
  {V2Body(w, to, c) : w \in WebhookIds, to \in SourceTos \cup {UpperEmailTo},
                      c \in {Undefined, Str(<<"C", "O", "P">>)}}
SmsBodies ==
  {UnreadBody, [UnreadBody EXCEPT !.json = TRUE]} \cup
  {[json |-> TRUE, wellFormed |-> TRUE, webhookId |-> w, sourceTo |-> <<>>,
    currency |-> Undefined, message |-> m] :
     w \in WebhookIds, m \in SmsMessages}

\* sourceValueSchema: /^[^\s@]+@[^\s@]+\.[^\s@]+$/
IsEmailFormat(val) ==
  \E p, q \in 1..Len(val) :
    /\ 1 < p
    /\ p + 1 < q
    /\ q < Len(val)
    /\ val[p] = "@"
    /\ val[q] = "."
    /\ \A i \in 1..Len(val) :
         /\ val[i] \notin Whitespace
         /\ val[i] = "@" => i = p

\* sourceValueSchema: /^\+\d{10,15}$/
IsPhoneFormat(val) ==
  /\ Len(val) \in 11..16
  /\ val[1] = "+"
  /\ \A i \in 2..Len(val) : val[i] \in Digits

sourceValueSchema(val) ==
  /\ Len(val) >= 1
  /\ Len(val) <= 255
  /\ IF Contains(val, "@") THEN IsEmailFormat(val)
     ELSE IF StartsWith(val, "+") THEN IsPhoneFormat(val)
     ELSE Len(val) > 0

\* currency: z.string().length(3).regex(/^[A-Z]{3}$/)
CurrencyString(input) ==
  [success |-> /\ Len(input.value) = 3
               /\ \A i \in 1..Len(input.value) : input.value[i] \in UpperLetters,
   data |-> input]

\* .default('COP'): an undefined input is replaced before the string checks
CurrencyDefault(input) ==
  IF input.present THEN CurrencyString(input)
  ELSE CurrencyString(Str(<<"C", "O", "P">>))

\* .optional() around the default: an undefined input is accepted as it is
\* and never reaches the schema inside
CurrencyOptional(input) ==
  IF input.present THEN CurrencyDefault(input)
  ELSE [success |-> TRUE, data |-> Undefined]

\* String.prototype.toLowerCase over the letters in use
LowerCase == [A |-> "a", C |-> "c", O |-> "o", P |-> "p"]
toLowerCase(s) ==
  [i \in 1..Len(s) |->
     IF s[i] \in DOMAIN LowerCase THEN LowerCase[s[i]] ELSE s[i]]

\* String.prototype.trim
trim(s) ==
  LET kept == {i \in 1..Len(s) : s[i] \notin Whitespace} IN
  IF kept = {} THEN <<>>
  ELSE SubSeq(s, CHOOSE i \in kept : \A j \in kept : i <= j,
                 CHOOSE i \in kept : \A j \in kept : j <= i)

\* value.replace(/\s+/g, '')
RemoveWhitespace(s) == SelectSeq(s, LAMBDA ch : ch \notin Whitespace)

\* normalizeSourceValue, which no caller of findOrCreateSource applies
normalizeSourceValue(value, type) ==
  IF type = "email" THEN trim(toLowerCase(value))
  ELSE IF type = "phone"
  THEN IF StartsWith(RemoveWhitespace(value), "+")
       THEN RemoveWhitespace(value)
       ELSE <<"+">> \o RemoveWhitespace(value)
  ELSE trim(value)

\* parseV2WebhookPayload: safeParse over v2WebhookRequestSchema; the fields
\* kept in the body record are checked, the others are taken as valid
parseV2WebhookPayload(body) ==
  LET currency == CurrencyOptional(body.currency) IN
  [success |-> sourceValueSchema(body.sourceTo) /\ currency.success,
   data |-> [body EXCEPT !.currency = currency.data]]

\* validateWebhookPayload of the free-text route
validateWebhookPayload(body) == body.wellFormed

\* parseBancolombiaSMS
parseBancolombiaSMS(message) ==
  [success |-> message = ParseableSms,
   errorReason |-> IF message = ParseableSms THEN ""
                   ELSE "Message does not match expected pattern"]

IdleEnvelope ==
  [r |-> 0, pc |-> "idle", url |-> V2Url, headers |-> NoHeaders,
   body |-> UnreadBody, jsonRead |-> FALSE, threw |-> FALSE,
   webhookData |-> UnreadBody, response |-> NoResponse]

\* lib/logger before the module is loaded
NotLoaded == [loaded |-> FALSE, isDevelopment |-> FALSE]

\* the browser before the page is loaded
NoSession ==
  [now |-> 0, stored |-> FALSE, expiresAt |-> 0, listeners |-> {},
   lastActivity |-> <<>>, intervals |-> 0, advances |-> 0, cleaned |-> FALSE]

\* no pure function was called yet
NoCall == [fn |-> "none"]

\* useAuthStore, initial state
NotInitialized ==
  [user |-> "", loading |-> FALSE, error |-> "", isInitialized |-> FALSE,
   listeners |-> 0, calls |-> <<>>]

Init ==
  /\ sources = {[id |-> 1, sourceType |-> "email", sourceValue |-> EmailTo]}
  /\ userSources =
       {[id |-> 2, userId |-> "u1", sourceId |-> 1, isActive |-> TRUE]}
  /\ v2Transactions = {}
  /\ transactions = {}
  /\ parseErrors = {}
  /\ nextId = 3
  /\ faults = 0
  /\ req = [r \in Requests |-> IdleRequest]
  /\ sms = [r \in Requests |-> IdleSms]
  /\ admin = [count |-> 0, error |-> ""]
  /\ handler \in Handlers
  /\ env = IdleEnvelope
  /\ now = 0
  /\ rateLimitMap = {}
  /\ passed = [count |-> 0, resetTime |-> 0]
  /\ logger = NotLoaded
  /\ session = NoSession
  /\ auth = NotInitialized
  /\ calc = NoCall


\* record update: the fields of upd replace those of rec
Merge(rec, upd) ==
  [f \in DOMAIN rec |-> IF f \in DOMAIN upd THEN upd[f] ELSE rec[f]]

\* ------------------------------------- WebhookRepository.processV2Webhook
Failure(error) ==
  [success |-> FALSE, transactionId |-> 0, sourceId |-> 0, error |-> error,
   isDuplicate |-> FALSE]

Success(transactionId, sourceId, isDuplicate) ==
  [success |-> TRUE, transactionId |-> transactionId, sourceId |-> sourceId,
   error |-> "", isDuplicate |-> isDuplicate]

\* userIds.length === 0
NoSubscribersNever(userIds) == FALSE
NoSubscribers(userIds) == userIds = {}

\* TransactionRepository.createV2Transaction: the transaction, or null (0)
\* for a duplicate as well as for every other error (thrown and caught)
RepoCreateV2Transaction(data, error) ==
  IF error # <<>>
  THEN IF Includes(error, "Duplicate webhook ID") THEN 0 ELSE 0
  ELSE data

\* processV2Webhook once createV2Transaction gave null: look the id up
NullTransactionResultNoLookup(existing, sourceId) ==
  Failure("Failed to create transaction")
NullTransactionResult(existing, sourceId) ==
  IF existing # {}
  THEN Success((CHOOSE t \in existing : TRUE).id, sourceId, TRUE)
  ELSE Failure("Failed to create transaction")

\* ------------------------------------------ POST, repository pattern
RepoRouteResponse(result) ==
  IF result.success
  THEN [status |-> IF result.isDuplicate THEN "duplicate" ELSE "processed",
        http |-> 200, error |-> "", transactionId |-> result.transactionId,
        sourceId |-> result.sourceId]
  ELSE [status |-> "error", http |-> 400, error |-> result.error,
        transactionId |-> 0, sourceId |-> 0]

\* ------------------------------------------ POST, direct database access
DirectError(http, error, sourceId) ==
  [status |-> "error", http |-> http, error |-> error, transactionId |-> 0,
   sourceId |-> sourceId]

DirectTransactionErrorResponse(error, sourceId) ==
  IF Includes(error, "Duplicate webhook ID")
  THEN [status |-> "duplicate", http |-> 200, error |-> "",
        transactionId |-> 0, sourceId |-> sourceId]
  ELSE DirectError(500, "Failed to store transaction", 0)

ProcessedResponse(h, transactionId, sourceId) ==
  IF h = "repo"
  THEN RepoRouteResponse(Success(transactionId, sourceId, FALSE))
  ELSE [status |-> "processed", http |-> 200, error |-> "",
        transactionId |-> transactionId, sourceId |-> sourceId]

SourceFailureResponse(h) ==
  IF h = "repo"
  THEN RepoRouteResponse(Failure("Failed to process source"))
  ELSE DirectError(500, "Failed to process source", 0)

UsersFailureResponse(h) ==
  IF h = "repo"
  THEN RepoRouteResponse(Failure("Failed to find users for source"))
  ELSE DirectError(500, "Failed to find users for source", 0)

NoUsersResponse(h, sourceId) ==
  IF h = "repo"
  THEN RepoRouteResponse(Failure("No users configured for this source"))
  ELSE DirectError(404, "No users configured for this source", sourceId)

\* --------------------------------------------------------------- steps
Set(r, upd) == req' = [req EXCEPT ![r] = Merge(req[r], upd)]

StoreUnchanged ==
  UNCHANGED <<sources, userSources, v2Transactions, transactions, parseErrors,
              nextId>>

\* a structured request passed validateWebhookRequest; the source type is
\* inferred from sourceTo
StartV2With(r, w, to) ==
  /\ req[r].pc = "idle"
  /\ Set(r, [pc |-> "findSource", webhookId |-> w,
             sourceTo |-> to, sourceType |-> InferSourceType(to),
             sawProcessed |->
               \E q \in Requests : /\ req[q].webhookId = w
                                   /\ req[q].response.status = "processed"])
  /\ StoreUnchanged
  /\ UNCHANGED <<faults, sms, admin, handler>>

StartV2(r) ==
  /\ IF r = 1 THEN TRUE ELSE req[r - 1].pc # "idle"
  /\ \E w \in WebhookIds, to \in SourceTos : StartV2With(r, w, to)
  /\ UNCHANGED envVars

\* findOrCreateSource: the lookup
FindSource(r) ==
  /\ req[r].pc = "findSource"
  /\ \E fail \in FaultChoices :
       LET found == SelectSource(req[r].sourceType, req[r].sourceTo) IN
       IF fail
       THEN /\ Set(r, [pc |-> "done", faulted |-> TRUE,
                       response |-> SourceFailureResponse(handler)])
            /\ faults' = faults + 1
       ELSE /\ IF found # {}
               THEN Set(r, [pc |-> "getUsers",
                            source |-> (CHOOSE s \in found : TRUE).id])
               ELSE Set(r, [pc |-> "createSource"])
            /\ UNCHANGED faults
  /\ StoreUnchanged
  /\ UNCHANGED <<sms, admin, handler>>
  /\ UNCHANGED envVars

\* findOrCreateSource: the insert after a lookup that found nothing
CreateSource(r) ==
  /\ req[r].pc = "createSource"
  /\ \E fail \in FaultChoices :
       IF fail
       THEN /\ Set(r, [pc |-> "done", faulted |-> TRUE,
                       response |-> SourceFailureResponse(handler)])
            /\ faults' = faults + 1
            /\ UNCHANGED <<sources, nextId>>
       ELSE /\ UNCHANGED faults
            /\ IF SourceUnique(sources, req[r].sourceType, req[r].sourceTo)
               THEN /\ sources' = sources \cup
                         {[id |-> nextId, sourceType |-> req[r].sourceType,
                           sourceValue |-> req[r].sourceTo]}
                    /\ nextId' = nextId + 1
                    /\ Set(r, [pc |-> "getUsers", source |-> nextId])
               ELSE /\ Set(r, [pc |-> "done", srcRefused |-> TRUE,
                               response |-> SourceFailureResponse(handler)])
                    /\ UNCHANGED <<sources, nextId>>
  /\ UNCHANGED <<userSources, v2Transactions, transactions, parseErrors, sms,
                 admin, handler>>
  /\ UNCHANGED envVars

\* getUsersForSource and the zero-subscriber branch
GetUsers(r) ==
  /\ req[r].pc = "getUsers"
  /\ \E fail \in FaultChoices :
       LET userIds == getUsersForSource(req[r].source) IN
       IF fail
       THEN /\ Set(r, [pc |-> "done", faulted |-> TRUE,
                       response |-> UsersFailureResponse(handler)])
            /\ faults' = faults + 1
       ELSE /\ IF NoSubscribers(userIds)
               THEN Set(r, [pc |-> "done", usersFetched |-> TRUE,
                            userIds |-> userIds,
                            response |-> NoUsersResponse(handler,
                                                         req[r].source)])
               ELSE Set(r, [pc |-> "checkDuplicate", usersFetched |-> TRUE,
                            userIds |-> userIds])
            /\ UNCHANGED faults
  /\ StoreUnchanged
  /\ UNCHANGED <<sms, admin, handler>>
  /\ UNCHANGED envVars

\* what the handler does with an error returned by
\* V2DatabaseService.createV2Transaction
AfterTransactionError(r, error, upd) ==
  IF handler = "repo"
  THEN Set(r, Merge([pc |-> "lookupDuplicate", txError |-> error,
                     faulted |-> req[r].faulted, txRefused |-> FALSE], upd))
  ELSE Set(r, Merge([pc |-> "done", txError |-> error,
                     faulted |-> req[r].faulted, txRefused |-> FALSE,
                     response |->
                       DirectTransactionErrorResponse(error, req[r].source)],
                    upd))

\* createV2Transaction: the pre-check for an existing webhook_id
CheckDuplicate(r) ==
  /\ req[r].pc = "checkDuplicate"
  /\ \E fail \in FaultChoices :
       IF fail
       THEN /\ AfterTransactionError(r,
                 <<"Failed to check for duplicates: ", "storage unavailable">>,
                 [faulted |-> TRUE])
            /\ faults' = faults + 1
       ELSE /\ IF SelectV2ByWebhookId(req[r].webhookId) # {}
               THEN AfterTransactionError(r, <<"Duplicate webhook ID">>,
                                          [faulted |-> req[r].faulted])
               ELSE Set(r, [pc |-> "insertTransaction"])
            /\ UNCHANGED faults
  /\ StoreUnchanged
  /\ UNCHANGED <<sms, admin, handler>>
  /\ UNCHANGED envVars

\* createV2Transaction: the insert, and the response to a created row
InsertTransaction(r) ==
  /\ req[r].pc = "insertTransaction"
  /\ \E fail \in FaultChoices :
       IF fail
       THEN /\ AfterTransactionError(r,
                 <<"Failed to insert transaction: ", "storage unavailable">>,
                 [faulted |-> TRUE])
            /\ faults' = faults + 1
            /\ UNCHANGED <<v2Transactions, nextId>>
       ELSE /\ UNCHANGED faults
            /\ IF WebhookIdUnique(v2Transactions, req[r].webhookId)
               THEN /\ v2Transactions' = v2Transactions \cup
                         {[id |-> nextId, sourceId |-> req[r].source,
                           webhookId |-> req[r].webhookId, by |-> r]}
                    /\ nextId' = nextId + 1
                    /\ Set(r, [pc |-> "done",
                               response |-> ProcessedResponse(handler,
                                              nextId, req[r].source)])
               ELSE /\ AfterTransactionError(r,
                         <<"Failed to insert transaction: ",
                           "duplicate key value violates unique constraint">>,
                         [txRefused |-> TRUE])
                    /\ UNCHANGED <<v2Transactions, nextId>>
  /\ UNCHANGED <<sources, userSources, transactions, parseErrors, sms, admin,
                 handler>>
  /\ UNCHANGED envVars

\* processV2Webhook, transaction == null: getV2TransactionByWebhookId
LookupDuplicate(r) ==
  /\ req[r].pc = "lookupDuplicate"
  /\ RepoCreateV2Transaction(0, req[r].txError) = 0
  /\ \E fail \in FaultChoices :
       IF fail
       THEN /\ Set(r, [pc |-> "done", faulted |-> TRUE,
                       response |-> RepoRouteResponse(
                                      NullTransactionResult({}, req[r].source))])
            /\ faults' = faults + 1
       ELSE /\ Set(r, [pc |-> "done",
                       response |-> RepoRouteResponse(
                         NullTransactionResult(
                           getV2TransactionByWebhookId(req[r].webhookId),
                           req[r].source))])
            /\ UNCHANGED faults
  /\ StoreUnchanged
  /\ UNCHANGED <<sms, admin, handler>>
  /\ UNCHANGED envVars

\* ------------------------------------------- subscription management
\* UNIQUE(user_id, source_id)
UserSourceUniqueNoConstraint(rows, userId, sourceId) == TRUE
UserSourceUnique(rows, userId, sourceId) ==
  ~ \E u \in rows : u.userId = userId /\ u.sourceId = sourceId

\* V2DatabaseService.addUserSource
addUserSource(userId, sourceId) ==
  /\ IF UserSourceUnique(userSources, userId, sourceId)
     THEN /\ userSources' = userSources \cup
               {[id |-> nextId, userId |-> userId, sourceId |-> sourceId,
                 isActive |-> TRUE]}
          /\ nextId' = nextId + 1
          /\ admin' = [count |-> admin.count + 1, error |-> ""]
     ELSE /\ UNCHANGED <<userSources, nextId>>
          /\ admin' = [count |-> admin.count + 1,
                       error |-> "User is already associated with this source"]
  /\ UNCHANGED <<sources, v2Transactions, transactions, parseErrors,
                 faults, req, sms, handler>>
  /\ UNCHANGED envVars

AddUserSource(userId, sourceId) ==
  /\ admin.count < MaxAdminOps
  /\ addUserSource(userId, sourceId)

\* .update({ is_active: false }).eq('user_id', ..).eq('source_id', ..)
UpdateInactiveDeletes(rows, userId, sourceId) ==
  {u \in rows : ~(u.userId = userId /\ u.sourceId = sourceId)}
UpdateInactive(rows, userId, sourceId) ==
  {IF u.userId = userId /\ u.sourceId = sourceId
   THEN [u EXCEPT !.isActive = FALSE] ELSE u : u \in rows}

\* V2DatabaseService.removeUserSource
removeUserSource(userId, sourceId) ==
  /\ userSources' = UpdateInactive(userSources, userId, sourceId)
  /\ admin' = [count |-> admin.count + 1, error |-> ""]
  /\ UNCHANGED <<sources, v2Transactions, transactions, parseErrors, nextId,
                 faults, req, sms, handler>>
  /\ UNCHANGED envVars

RemoveUserSource(userId, sourceId) ==
  /\ admin.count < MaxAdminOps
  /\ removeUserSource(userId, sourceId)

\* a sequence of subscription changes on the sources that exist
Subscribers == {"u1", "u2", "u3"}

Subscribe(userId, sourceId) ==
  /\ admin.count < MaxSubscriptionOps
  /\ addUserSource(userId, sourceId)

Unsubscribe(userId, sourceId) ==
  /\ admin.count < MaxSubscriptionOps
  /\ removeUserSource(userId, sourceId)

NextSubscriptions ==
  \/ \E u \in Subscribers, s \in sources : Subscribe(u, s.id)
  \/ \E u \in Subscribers, s \in sources : Unsubscribe(u, s.id)

SpecSubscriptions == Init /\ [][NextSubscriptions]_vars

\* ------------------------------------------------ free-text (SMS) path
\* transactions.webhook_id VARCHAR(255) UNIQUE NOT NULL
SmsWebhookIdUnique(rows, webhookId) ==
  ~ \E t \in rows : t.webhookId = webhookId

\* POST (direct): .from('transactions').select(..).eq('webhook_id', ..)
SelectByWebhookId(webhookId) ==
  {t \in transactions : t.webhookId = webhookId}

\* TransactionDatabase.getTransactionByWebhookId: the row or nothing
getTransactionByWebhookId(webhookId) ==
  {t \in transactions : t.webhookId = webhookId}

\* POST (direct): .from('transactions').insert(..): the table after the
\* insert; the table as it was when the uniqueness constraint refuses the row
InsertSmsTransaction(rows, id, webhookId, r) ==
  IF SmsWebhookIdUnique(rows, webhookId)
  THEN rows \cup {[id |-> id, webhookId |-> webhookId, by |-> r]}
  ELSE rows

\* TransactionDatabase.insertTransaction: an insert under the same constraint
insertTransaction(rows, id, webhookId, r) ==
  IF SmsWebhookIdUnique(rows, webhookId)
  THEN rows \cup {[id |-> id, webhookId |-> webhookId, by |-> r]}
  ELSE rows

\* POST (direct): .from('parse_errors').insert(..)
InsertParseErrorRowNothing(rows, id, rawMessage, errorReason, webhookId, r) ==
  rows
InsertParseErrorRow(rows, id, rawMessage, errorReason, webhookId, r) ==
  rows \cup {[id |-> id, rawMessage |-> rawMessage,
               errorReason |-> errorReason, webhookId |-> webhookId,
               by |-> r]}

\* ParseErrorDatabase.insertParseError
insertParseError(rows, id, rawMessage, errorReason, webhookId, r) ==
  rows \cup {[id |-> id, rawMessage |-> rawMessage,
               errorReason |-> errorReason, webhookId |-> webhookId,
               by |-> r]}

\* ParseErrorRepository.createParseError: the insert; a failure is caught
\* and logged, and the table stays as it was
createParseError(rows, fail, id, rawMessage, errorReason, webhookId, r) ==
  IF fail THEN rows
  ELSE insertParseError(rows, id, rawMessage, errorReason, webhookId, r)

\* POST (repository pattern) over processSMSWebhook's result
SmsRepoRouteResponse(result) ==
  IF result.success
  THEN [status |-> IF result.isDuplicate THEN "duplicate" ELSE "processed",
        http |-> 200, error |-> "", transactionId |-> result.transactionId,
        sourceId |-> 0]
  ELSE [status |-> "error", http |-> 400, error |-> result.error,
        transactionId |-> 0, sourceId |-> 0]

SmsDuplicateResponse(h, transactionId) ==
  IF h = "repo"
  THEN SmsRepoRouteResponse(Success(transactionId, 0, TRUE))
  ELSE [status |-> "duplicate", http |-> 200, error |-> "",
        transactionId |-> transactionId, sourceId |-> 0]

SmsProcessedResponse(h, transactionId) ==
  IF h = "repo"
  THEN SmsRepoRouteResponse(Success(transactionId, 0, FALSE))
  ELSE [status |-> "processed", http |-> 200, error |-> "",
        transactionId |-> transactionId, sourceId |-> 0]

SmsParseFailedResponse(h) ==
  IF h = "repo"
  THEN SmsRepoRouteResponse(Failure("Parse failed"))
  ELSE DirectError(400, "Parse failed", 0)

SetSms(r, upd) == sms' = [sms EXCEPT ![r] = Merge(sms[r], upd)]

\* a free-text request passed the envelope checks
StartSmsWith(r, w, m) ==
  /\ sms[r].pc = "idle"
  /\ SetSms(r, [pc |-> "checkDuplicate", webhookId |-> w, message |-> m,
                parseable |-> parseBancolombiaSMS(m).success])
  /\ StoreUnchanged
  /\ UNCHANGED <<faults, req, admin, handler>>

StartSms(r) ==
  /\ IF r = 1 THEN TRUE ELSE sms[r - 1].pc # "idle"
  /\ \E w \in WebhookIds, m \in SmsMessages : StartSmsWith(r, w, m)
  /\ UNCHANGED envVars

\* the duplicate check, then parseBancolombiaSMS on the message
SmsCheckDuplicate(r) ==
  /\ sms[r].pc = "checkDuplicate"
  /\ \E fail \in FaultChoices :
       LET existing == IF fail THEN {}
                       ELSE IF handler = "repo"
                       THEN getTransactionByWebhookId(sms[r].webhookId)
                       ELSE SelectByWebhookId(sms[r].webhookId)
           afterParse == IF sms[r].parseable THEN "insertTransaction"
                         ELSE "insertParseError"
       IN
       /\ faults' = IF fail THEN faults + 1 ELSE faults
       /\ IF fail /\ handler = "direct"
          THEN SetSms(r, [pc |-> "done", faulted |-> TRUE,
                          response |->
                            DirectError(500, "Database connection error", 0)])
          ELSE IF existing # {}
          THEN SetSms(r, [pc |-> "done",
                          response |-> SmsDuplicateResponse(handler,
                                         (CHOOSE t \in existing : TRUE).id)])
          ELSE SetSms(r, [pc |-> afterParse, parsed |-> TRUE,
                          faulted |-> sms[r].faulted \/ fail])
  /\ StoreUnchanged
  /\ UNCHANGED <<req, admin, handler>>
  /\ UNCHANGED envVars

\* the message did not parse: record a ParseError, answer "Parse failed"
SmsInsertParseError(r) ==
  /\ sms[r].pc = "insertParseError"
  /\ \E fail \in FaultChoices :
       LET errorReason == parseBancolombiaSMS(sms[r].message).errorReason IN
       /\ faults' = IF fail THEN faults + 1 ELSE faults
       /\ parseErrors' = IF handler = "repo"
                         THEN createParseError(parseErrors, fail, nextId,
                                sms[r].message, errorReason,
                                sms[r].webhookId, r)
                         ELSE IF fail THEN parseErrors
                         ELSE InsertParseErrorRow(parseErrors, nextId,
                                sms[r].message, errorReason,
                                sms[r].webhookId, r)
       /\ nextId' = IF fail THEN nextId ELSE nextId + 1
       /\ SetSms(r, [pc |-> "done", faulted |-> sms[r].faulted \/ fail,
                     logFailed |-> fail,
                     response |-> SmsParseFailedResponse(handler)])
  /\ UNCHANGED <<sources, userSources, v2Transactions, transactions, req,
                 admin, handler>>
  /\ UNCHANGED envVars

\* the insert of the parsed transaction
SmsInsertTransaction(r) ==
  /\ sms[r].pc = "insertTransaction"
  /\ \E fail \in FaultChoices :
       LET after == IF fail THEN transactions
                    ELSE IF handler = "repo"
                    THEN insertTransaction(transactions, nextId,
                                           sms[r].webhookId, r)
                    ELSE InsertSmsTransaction(transactions, nextId,
                                              sms[r].webhookId, r)
           stored == after # transactions
       IN
       /\ faults' = IF fail THEN faults + 1 ELSE faults
       /\ transactions' = after
       /\ nextId' = IF stored THEN nextId + 1 ELSE nextId
       /\ IF stored
          THEN SetSms(r, [pc |-> "done",
                          response |-> SmsProcessedResponse(handler,
                                                            nextId)])
          ELSE IF handler = "repo"
          THEN SetSms(r, [pc |-> "done", faulted |-> sms[r].faulted \/ fail,
                          txRefused |-> ~fail,
                          response |-> SmsRepoRouteResponse(
                                         Failure("Failed to create transaction"))])
          ELSE SetSms(r, [pc |-> "logInsertFailure",
                          faulted |-> sms[r].faulted \/ fail,
                          txRefused |-> ~fail])
  /\ UNCHANGED <<sources, userSources, v2Transactions, parseErrors, req, admin,
                 handler>>
  /\ UNCHANGED envVars

\* POST (direct): a failed insert is logged as a parse error, then 500
SmsLogInsertFailure(r) ==
  /\ sms[r].pc = "logInsertFailure"
  /\ \E fail \in FaultChoices :
       /\ faults' = IF fail THEN faults + 1 ELSE faults
       /\ parseErrors' = IF fail THEN parseErrors
                         ELSE InsertParseErrorRow(parseErrors, nextId,
                                sms[r].message, "Database insert failed",
                                sms[r].webhookId, r)
       /\ nextId' = IF fail THEN nextId ELSE nextId + 1
       /\ SetSms(r, [pc |-> "done", faulted |-> sms[r].faulted \/ fail,
                     response |->
                       DirectError(500, "Failed to store transaction", 0)])
  /\ UNCHANGED <<sources, userSources, v2Transactions, transactions, req,
                 admin, handler>>
  /\ UNCHANGED envVars

\* ------------------------------------------------ WebhookService, envelope
\* RepositoryFactory.getWebhookService: a new WebhookService on every call,
\* whose rateLimitMap starts empty
getWebhookService == [rateLimitMap |-> {}]

windowMs == 60 * 1000
maxRequests == 100

\* WebhookService.checkRateLimit: the verdict and the map after the call
checkRateLimit(map, clientIP, t) ==
  LET current == {e \in map : e.key = clientIP}
      fresh == [key |-> clientIP, count |-> 1, resetTime |-> t + windowMs]
  IN
  IF current = {}
  THEN [allowed |-> TRUE, map |-> map \cup {fresh}]
  ELSE LET c == CHOOSE e \in current : TRUE IN
       IF t > c.resetTime
       THEN [allowed |-> TRUE, map |-> (map \ current) \cup {fresh}]
       ELSE IF c.count >= maxRequests
       THEN [allowed |-> FALSE, map |-> map]
       ELSE [allowed |-> TRUE,
             map |-> (map \ current) \cup {[c EXCEPT !.count = @ + 1]}]

\* WebhookService.validateTimestamp: timeDiff <= maxAgeMs, which is false
\* for the NaN of a date that does not parse
validateTimestampAny(timestamp, maxAgeMinutes) == TRUE
validateTimestamp(timestamp, maxAgeMinutes) ==
  IF timestamp.valid THEN timestamp.age <= maxAgeMinutes * 60 * 1000
  ELSE FALSE

\* WebhookService.validateAuthToken
validateAuthTokenAny(token) == TRUE
validateAuthToken(token) == token = <<WebhookSecret>>

\* String.prototype.replace(needle, ''): the first occurrence is removed
RemoveFirst(s, needle) ==
  IF ~Includes(s, needle) THEN s
  ELSE LET i == CHOOSE k \in 1..Len(s) :
                  s[k] = needle /\ \A j \in 1..(k - 1) : s[j] # needle
       IN SubSeq(s, 1, i - 1) \o SubSeq(s, i + 1, Len(s))

maxSize(url) == IF Includes(url, "/v2/") THEN 20000 ELSE 10000
maxAgeMinutes(url) == IF Includes(url, "/v2/") THEN 10 ELSE 5

Valid(webhookData) ==
  [isValid |-> TRUE, error |-> "", webhookData |-> webhookData]
Invalid(error) ==
  [isValid |-> FALSE, error |-> error, webhookData |-> UnreadBody]

\* validateWebhookRequest up to request.json(): the error, "" for none
validateHeaders(url, h, allowed) ==
  IF WebhookSecret = "" THEN "Server configuration error"
  ELSE IF h.contentLength # NoHeader /\ h.contentLength > maxSize(url)
  THEN "Request payload too large"
  ELSE IF ~allowed THEN "Rate limit exceeded"
  ELSE IF /\ h.timestamp.present
          /\ ~validateTimestamp(h.timestamp, maxAgeMinutes(url))
  THEN "Request timestamp too old"
  ELSE IF h.authorization = <<>> \/ ~StartsWith(h.authorization, "Bearer ")
  THEN "Missing or invalid authorization header"
  ELSE IF ~validateAuthToken(RemoveFirst(h.authorization, "Bearer "))
  THEN "Invalid webhook token"
  ELSE IF ~Includes(h.contentType, "application/json")
  THEN "Content-Type must be application/json"
  ELSE ""

\* validateWebhookRequest from request.json() on
validateBody(url, body) ==
  IF ~body.json THEN Invalid("Invalid JSON payload")
  ELSE IF Includes(url, "/v2/")
  THEN LET validationResult == parseV2WebhookPayload(body) IN
       IF ~validationResult.success THEN Invalid("Validation failed")
       ELSE Valid(validationResult.data)
  ELSE IF ~validateWebhookPayload(body)
  THEN Invalid("Invalid webhook payload format")
  ELSE Valid(body)

\* WebhookService.validateWebhookRequest
validateWebhookRequest(url, h, body, allowed) ==
  IF validateHeaders(url, h, allowed) # ""
  THEN Invalid(validateHeaders(url, h, allowed))
  ELSE validateBody(url, body)

\* POST (repository pattern): the answer to a request that is not valid
RepoValidationResponse(validation) ==
  [status |-> "error", http |-> 400, error |-> validation.error,
   transactionId |-> 0, sourceId |-> 0]

SmsRepoValidationResponse(validation) ==
  [status |-> "error", http |-> 400, error |-> validation.error,
   transactionId |-> 0, sourceId |-> 0]

\* POST (direct), structured route: the header checks; NoResponse for a pass
DirectV2Headers(h) ==
  IF h.contentLength # NoHeader /\ h.contentLength > 20000
  THEN DirectError(413, "Request payload too large", 0)
  ELSE IF /\ h.timestamp.present
          /\ h.timestamp.valid
          /\ h.timestamp.age > 10 * 60 * 1000
  THEN DirectError(400, "Request timestamp too old", 0)
  ELSE IF h.authorization = <<>> \/ ~StartsWith(h.authorization, "Bearer ")
  THEN DirectError(401, "Missing or invalid authorization header", 0)
  ELSE IF RemoveFirst(h.authorization, "Bearer ") # <<WebhookSecret>>
  THEN DirectError(401, "Invalid webhook token", 0)
  ELSE IF ~Includes(h.contentType, "application/json")
  THEN DirectError(400, "Content-Type must be application/json", 0)
  ELSE NoResponse

\* POST (direct), structured route: request.json() and the schema
DirectV2Body(body) ==
  IF ~body.json THEN DirectError(400, "Invalid JSON payload", 0)
  ELSE IF ~parseV2WebhookPayload(body).success
  THEN DirectError(400, "Validation failed", 0)
  ELSE NoResponse

\* POST (direct), free-text route: the header checks
DirectSmsHeaders(h) ==
  IF h.contentLength # NoHeader /\ h.contentLength > 10000
  THEN DirectError(413, "Request payload too large", 0)
  ELSE IF /\ h.timestamp.present
          /\ h.timestamp.valid
          /\ h.timestamp.age > 5 * 60 * 1000
  THEN DirectError(400, "Request timestamp too old", 0)
  ELSE IF h.authorization = <<>> \/ ~StartsWith(h.authorization, "Bearer ")
  THEN DirectError(401, "Missing or invalid authorization header", 0)
  ELSE IF RemoveFirst(h.authorization, "Bearer ") # <<WebhookSecret>>
  THEN DirectError(401, "Invalid webhook token", 0)
  ELSE IF ~Includes(h.contentType, "application/json")
  THEN DirectError(400, "Content-Type must be application/json", 0)
  ELSE NoResponse

\* POST (direct), free-text route: request.json() and the payload format
DirectSmsBody(body) ==
  IF ~body.json THEN DirectError(400, "Invalid JSON payload", 0)
  ELSE IF ~validateWebhookPayload(body)
  THEN DirectError(400, "Invalid webhook payload format", 0)
  ELSE NoResponse

\* the answer of the deployed handler to the headers, NoResponse for a pass
HeaderResponse(url, h, allowed) ==
  IF handler = "repo"
  THEN IF validateHeaders(url, h, allowed) = "" THEN NoResponse
       ELSE IF Includes(url, "/v2/")
       THEN RepoValidationResponse(Invalid(validateHeaders(url, h, allowed)))
       ELSE SmsRepoValidationResponse(
              Invalid(validateHeaders(url, h, allowed)))
  ELSE IF Includes(url, "/v2/") THEN DirectV2Headers(h)
  ELSE DirectSmsHeaders(h)

\* the answer of the deployed handler to the body, NoResponse for a pass
BodyResponse(url, h, body, allowed) ==
  IF handler = "repo"
  THEN IF validateWebhookRequest(url, h, body, allowed).isValid
       THEN NoResponse
       ELSE IF Includes(url, "/v2/")
       THEN RepoValidationResponse(
              validateWebhookRequest(url, h, body, allowed))
       ELSE SmsRepoValidationResponse(
              validateWebhookRequest(url, h, body, allowed))
  ELSE IF Includes(url, "/v2/") THEN DirectV2Body(body)
  ELSE DirectSmsBody(body)

\* the payload the handler goes on with
WebhookData(url, body) ==
  IF Includes(url, "/v2/") THEN parseV2WebhookPayload(body).data ELSE body

\* POST, catch at the outermost level
OuterCatchResponse == DirectError(500, "Internal server error", 0)

\* processV2Webhook and processSMSWebhook, catch
ProcessingCatchResult == Failure("Internal processing error")

\* the request validated last has been answered
Finished ==
  IF env.r = 0 THEN TRUE
  ELSE \/ env.pc = "done"
       \/ req[env.r].pc = "done"
       \/ sms[env.r].pc = "done"

\* POST up to the end of validation: one request after the other, the locals
\* of the request answered before are gone; the body is read only when the
\* headers passed
ValidateRequest ==
  /\ env.r < NumRequests
  /\ Finished
  /\ \E url \in Urls, h \in HeaderSets :
       LET service == getWebhookService
           sized == ~(h.contentLength # NoHeader
                      /\ h.contentLength > maxSize(url))
           limit == checkRateLimit(service.rateLimitMap, ClientIP, now)
           early == HeaderResponse(url, h, limit.allowed)
       IN
       /\ rateLimitMap' = IF handler = "repo"
                          THEN IF sized THEN limit.map
                               ELSE service.rateLimitMap
                          ELSE rateLimitMap
       /\ \E body \in IF early # NoResponse THEN {UnreadBody}
                      ELSE IF Includes(url, "/v2/") THEN V2Bodies
                      ELSE SmsBodies :
            LET response == IF early # NoResponse THEN early
                            ELSE BodyResponse(url, h, body, limit.allowed)
            IN
            env' = [r |-> env.r + 1,
                    pc |-> IF response = NoResponse THEN "accepted"
                           ELSE "done",
                    url |-> url, headers |-> h, body |-> body,
                    jsonRead |-> early = NoResponse, threw |-> FALSE,
                    webhookData |-> IF response = NoResponse
                                    THEN WebhookData(url, body)
                                    ELSE UnreadBody,
                    response |-> response]
  /\ req' = [r \in Requests |-> IdleRequest]
  /\ sms' = [r \in Requests |-> IdleSms]
  /\ StoreUnchanged
  /\ UNCHANGED <<faults, admin, handler, now, passed>>
  /\ UNCHANGED clientVars

\* POST (repository pattern): getWebhookService throws before validation
ServiceInitException ==
  /\ env.r < NumRequests
  /\ Finished
  /\ handler = "repo"
  /\ faults < MaxFaults
  /\ faults' = faults + 1
  /\ env' = [IdleEnvelope EXCEPT !.r = env.r + 1, !.pc = "done",
                                 !.threw = TRUE,
                                 !.response = OuterCatchResponse]
  /\ req' = [r \in Requests |-> IdleRequest]
  /\ sms' = [r \in Requests |-> IdleSms]
  /\ StoreUnchanged
  /\ UNCHANGED <<admin, handler, now, rateLimitMap, passed>>
  /\ UNCHANGED clientVars

\* validation is over: headers and body are not read again
Processing ==
  [env EXCEPT !.pc = "processing", !.headers = NoHeaders,
              !.body = UnreadBody, !.webhookData = UnreadBody]

\* the validated structured payload enters processing
ProcessV2 ==
  /\ env.pc = "accepted"
  /\ Includes(env.url, "/v2/")
  /\ StartV2With(env.r, env.webhookData.webhookId, env.webhookData.sourceTo)
  /\ env' = Processing
  /\ UNCHANGED <<now, rateLimitMap, passed>>
  /\ UNCHANGED clientVars

\* the validated free-text payload enters processing
ProcessSms ==
  /\ env.pc = "accepted"
  /\ ~Includes(env.url, "/v2/")
  /\ StartSmsWith(env.r, env.webhookData.webhookId, env.webhookData.message)
  /\ env' = Processing
  /\ UNCHANGED <<now, rateLimitMap, passed>>
  /\ UNCHANGED clientVars

\* an exception nothing in the pipeline expects, raised while the request
\* is processed: processV2Webhook and processSMSWebhook catch it; in the
\* direct handlers it reaches the catch of POST
UnexpectedException ==
  /\ env.pc = "processing"
  /\ ~env.threw
  /\ faults < MaxFaults
  /\ faults' = faults + 1
  /\ env' = [env EXCEPT !.threw = TRUE]
  /\ IF Includes(env.url, "/v2/")
     THEN /\ req[env.r].pc \notin {"idle", "done"}
          /\ Set(env.r,
                 [pc |-> "done", faulted |-> TRUE,
                  response |-> IF handler = "repo"
                               THEN RepoRouteResponse(ProcessingCatchResult)
                               ELSE OuterCatchResponse])
          /\ UNCHANGED sms
     ELSE /\ sms[env.r].pc \notin {"idle", "done"}
          /\ SetSms(env.r,
                    [pc |-> "done", faulted |-> TRUE,
                     response |-> IF handler = "repo"
                                  THEN SmsRepoRouteResponse(
                                         ProcessingCatchResult)
                                  ELSE OuterCatchResponse])
          /\ UNCHANGED req
  /\ StoreUnchanged
  /\ UNCHANGED <<admin, handler, now, rateLimitMap, passed>>
  /\ UNCHANGED clientVars

NextEnvelope ==
  \/ ValidateRequest
  \/ ServiceInitException
  \/ ProcessV2
  \/ ProcessSms
  \/ UnexpectedException
  \/ \E r \in Requests : FindSource(r)
  \/ \E r \in Requests : CreateSource(r)
  \/ \E r \in Requests : GetUsers(r)
  \/ \E r \in Requests : CheckDuplicate(r)
  \/ \E r \in Requests : InsertTransaction(r)
  \/ \E r \in Requests : LookupDuplicate(r)
  \/ \E r \in Requests : SmsCheckDuplicate(r)
  \/ \E r \in Requests : SmsInsertParseError(r)
  \/ \E r \in Requests : SmsInsertTransaction(r)
  \/ \E r \in Requests : SmsLogInsertFailure(r)

SpecEnvelope == Init /\ [][NextEnvelope]_vars

\* ------------------------------------------------- the rate limit
\* the requests sent to study the rate limit: refused for their
\* Content-Type, which is looked at after the rate limit, or for their
\* Content-Length, which is looked at before it
RateLimitHeaders ==
  {h \in HeaderSets :
     /\ h.authorization = PlainHeaders.authorization
     /\ h.timestamp = NoTimestamp
     /\ h.contentType = <<"text/plain">>}

\* Date.now() between two requests: half a window later
Tick ==
  /\ now < MaxTicks * (windowMs \div 2)
  /\ now' = now + windowMs \div 2
  /\ StoreUnchanged
  /\ UNCHANGED <<faults, req, sms, admin, handler, env, rateLimitMap, passed>>
  /\ UNCHANGED clientVars

\* POST, for a request that validation refuses. passed counts the requests
\* of the current window of the client address that got past the rate limit.
PostRefused ==
  /\ passed.count <= maxRequests
  /\ \E url \in Urls, h \in RateLimitHeaders :
       LET service == getWebhookService
           sized == ~(h.contentLength # NoHeader
                      /\ h.contentLength > maxSize(url))
           limit == IF handler = "repo"
                    THEN checkRateLimit(service.rateLimitMap, ClientIP, now)
                    ELSE [allowed |-> TRUE, map |-> rateLimitMap]
       IN
       /\ rateLimitMap' = IF handler = "repo" /\ ~sized
                          THEN service.rateLimitMap
                          ELSE limit.map
       /\ passed' = IF ~(sized /\ limit.allowed) THEN passed
                    ELSE IF passed.count = 0 \/ now > passed.resetTime
                    THEN [count |-> 1, resetTime |-> now + windowMs]
                    ELSE [passed EXCEPT !.count = @ + 1]
       /\ env' = [IdleEnvelope EXCEPT
                    !.r = 1, !.pc = "done", !.url = url, !.headers = h,
                    !.response = HeaderResponse(url, h, limit.allowed)]
  /\ StoreUnchanged
  /\ UNCHANGED <<faults, req, sms, admin, handler, now>>
  /\ UNCHANGED clientVars

NextRateLimit ==
  \/ Tick
  \/ PostRefused

SpecRateLimit == Init /\ [][NextRateLimit]_vars

\* ------------------------------------------------- logging
\* export const logger = new Logger(): NODE_ENV is read once, when the
\* module is loaded, before any request
LoadLogger ==
  /\ ~logger.loaded
  /\ env.r = 0
  /\ \E isDevelopment \in BOOLEAN :
       logger' = [loaded |-> TRUE, isDevelopment |-> isDevelopment]
  /\ UNCHANGED <<serverVars, session, auth, calc>>

\* Logger.shouldLog
shouldLog(level) ==
  IF logger.isDevelopment THEN TRUE
  ELSE level = "warn" \/ level = "error"

\* Logger.info, warn, error: what reaches the console; of the context only
\* the webhookId ("" for none) and whether there is a responseTime
Log(level, webhookId, responseTime) ==
  IF shouldLog(level)
  THEN {[level |-> level, webhookId |-> webhookId,
         responseTime |-> responseTime]}
  ELSE {}

\* console.log, console.warn, console.error called by a handler itself
Console(webhookId, responseTime) ==
  {[level |-> "console", webhookId |-> webhookId,
    responseTime |-> responseTime]}

\* Logger.webhookSuccess
webhookSuccess(webhookId) == Log("info", webhookId, TRUE)

\* Logger.webhookError
webhookError(webhookId) == Log("error", webhookId, TRUE)

\* body?.webhookId || 'unknown'
BodyWebhookId(body) ==
  IF body.json /\ body.webhookId # "" THEN body.webhookId ELSE "unknown"

\* validateWebhookRequest: what it logs for the body of a structured request
ValidationLog(e) ==
  IF e.response.error = "Validation failed"
  THEN Log("error", BodyWebhookId(e.body), FALSE)
  ELSE IF e.response.error = "Invalid JSON payload"
  THEN Log("error", "", FALSE)
  ELSE {}

\* processV2Webhook: what it logs on the way to a failure
RepositoryLog(r) ==
  IF r.response.error = "Failed to process source"
  THEN Log("error", "", FALSE)
  ELSE IF r.response.error = "Failed to find users for source"
  THEN Log("error", "", FALSE)
  ELSE IF r.response.error = "No users configured for this source"
  THEN Log("warn", "", FALSE)
  ELSE IF r.response.error = "Internal processing error"
  THEN Log("error", r.webhookId, FALSE)
  ELSE {}

\* POST (repository pattern), structured route: the records logged by the
\* time the request validated last is answered
V2RepoLog ==
  IF env.pc = "done"
  THEN IF env.threw THEN webhookError("unknown")
       ELSE ValidationLog(env)
  ELSE IF req[env.r].response.status \in {"processed", "duplicate"}
  THEN webhookSuccess(req[env.r].webhookId)
  ELSE RepositoryLog(req[env.r]) \cup webhookError(req[env.r].webhookId)

\* POST (direct database access), structured route
V2DirectLog ==
  IF env.pc = "done"
  THEN IF env.response.error = "Request payload too large" THEN {}
       ELSE Log("info", "", FALSE) \cup ValidationLog(env)
  ELSE Log("info", "", FALSE) \cup
       (IF req[env.r].response.status = "processed"
        THEN webhookSuccess(req[env.r].webhookId)
        ELSE IF req[env.r].response.status = "duplicate"
        THEN Console(req[env.r].webhookId, FALSE)
        ELSE IF req[env.r].response.error = "Internal server error"
        THEN webhookError("unknown")
        ELSE Console("", FALSE))

RouteLog == IF handler = "repo" THEN V2RepoLog ELSE V2DirectLog

NextLog ==
  \/ LoadLogger
  \/ ValidateRequest
  \/ ServiceInitException
  \/ ProcessV2
  \/ ProcessSms
  \/ UnexpectedException
  \/ \E r \in Requests : FindSource(r)
  \/ \E r \in Requests : CreateSource(r)
  \/ \E r \in Requests : GetUsers(r)
  \/ \E r \in Requests : CheckDuplicate(r)
  \/ \E r \in Requests : InsertTransaction(r)
  \/ \E r \in Requests : LookupDuplicate(r)
  \/ \E r \in Requests : SmsCheckDuplicate(r)
  \/ \E r \in Requests : SmsInsertParseError(r)
  \/ \E r \in Requests : SmsInsertTransaction(r)
  \/ \E r \in Requests : SmsLogInsertFailure(r)

SpecLog == Init /\ [][NextLog]_vars

\* ------------------------------------------------- date and time of a row
\* the instants a payload's ISO timestamp may denote, in hours since the
\* start of day 0 (UTC), and the offsets of the server's timezone in hours
Instants == 24..((MaxDays + 1) * 24 - 1)
ServerOffsets == {0 - 5, 0, 1}

\* timestamp.toISOString().split('T')[0]: the calendar day in UTC
transactionDate(timestamp) == timestamp \div 24

\* timestamp.toTimeString().split(' ')[0]: the time of day in the server's
\* timezone
transactionTime(timestamp, offset) == (timestamp + offset) % 24

\* createV2Transaction, the decomposition of webhookData.timestamp
DecomposeTimestamp ==
  /\ \E timestamp \in Instants, offset \in ServerOffsets :
       calc' = [fn |-> "createV2Transaction", timestamp |-> timestamp,
                offset |-> offset,
                transactionDate |-> transactionDate(timestamp),
                transactionTime |-> transactionTime(timestamp, offset)]
  /\ UNCHANGED <<serverVars, logger, session, auth>>

NextDate ==
  \/ DecomposeTimestamp

SpecDate == Init /\ [][NextDate]_vars

\* ------------------------------------------------ the amount of a row
\* a JSON number with at most three decimals, held as its millions and the
\* thousandths below a million
AmountMillions == {0, 1, 9999, 10000, 999999, 1000000}
AmountThousandths ==
  {0, 1, 4, 5, 9, 10, 1000, 999999000, 999999995, 999999999}
Amounts == [millions : AmountMillions, thousandths : AmountThousandths]

\* .max(999999999999, 'Amount too large')
maxAmount == [millions |-> 999999, thousandths |-> 999999000]

\* amount: z.number().positive().max(999999999999).refine(Number.isFinite)
amountSchema(amount) ==
  /\ amount.millions > 0 \/ amount.thousandths > 0
  /\ \/ amount.millions < maxAmount.millions
     \/ /\ amount.millions = maxAmount.millions
        /\ amount.thousandths <= maxAmount.thousandths

\* DECIMAL(12,2): the value is rounded to two decimals, half away from zero
RoundToScale(amount) ==
  LET cents == (amount.thousandths + 5) \div 10
  IN  IF cents = 100000000
      THEN [millions |-> amount.millions + 1, cents |-> 0]
      ELSE [millions |-> amount.millions, cents |-> cents]

\* DECIMAL(12,2) NOT NULL CHECK (amount > 0): twelve digits of which two are
\* decimals leave ten digits before the point
AmountColumn(amount) ==
  IF RoundToScale(amount).millions >= 10000
  THEN "numeric field overflow"
  ELSE IF RoundToScale(amount).millions = 0 /\ RoundToScale(amount).cents = 0
       THEN "violates check constraint"
       ELSE ""

\* createV2Transaction, the insert of amount: webhookData.amount.toString()
InsertAmountError(amount) ==
  IF AmountColumn(amount) = "" THEN ""
  ELSE "Failed to insert transaction: " \o AmountColumn(amount)

\* a payload's amount is validated and, when accepted, inserted
StoreAmount ==
  /\ \E amount \in Amounts :
       calc' = [fn |-> "amount", amount |-> amount,
                accepted |-> amountSchema(amount),
                error |-> IF amountSchema(amount)
                          THEN InsertAmountError(amount) ELSE ""]
  /\ UNCHANGED <<serverVars, logger, session, auth>>

NextAmount ==
  \/ StoreAmount

SpecAmount == Init /\ [][NextAmount]_vars

\* ------------------------------------------- the type of a sourceTo
\* sourceTo values a caller may send: a head, a middle and a tail
DigitRun(n) == [i \in 1..n |-> CHOOSE c \in Digits : c = ToString(i % 10)]
SourceToHeads == {<<>>, <<"+">>, <<"a">>, <<"@">>, <<" ">>}
SourceToMiddles ==
  {<<>>, DigitRun(9), DigitRun(10), DigitRun(15), DigitRun(16),
   <<"a", "@", "x", ".", "c", "o">>, <<"x", ".", "c", "o">>, <<"@", "x">>,
   <<"1", "2", "a", "4", "5", "6", "7", "8", "9", "0">>}
SourceToTails == {<<>>, <<"@">>, <<" ">>, <<"5">>, <<".">>}
SourceToInputs ==
  {h \o m \o t : h \in SourceToHeads, m \in SourceToMiddles,
                 t \in SourceToTails}

\* a payload's sourceTo is validated and its source type inferred
InferType ==
  /\ \E sourceTo \in SourceToInputs :
       calc' = [fn |-> "sourceTo", sourceTo |-> sourceTo,
                accepted |-> sourceValueSchema(sourceTo),
                sourceType |-> InferSourceType(sourceTo)]
  /\ UNCHANGED <<serverVars, logger, session, auth>>

NextSourceType ==
  \/ InferType

SpecSourceType == Init /\ [][NextSourceType]_vars

\* -------------------------------------------------- the browser session
\* times are counted in units of five minutes
SESSION_DURATION == 24 * 12
cleanupInterval == 1
activityThreshold == 2
activityEvents ==
  {"mousedown", "mousemove", "keypress", "scroll", "touchstart"}

\* SessionManager.clearSession
clearSession(s) == [s EXCEPT !.stored = FALSE, !.expiresAt = 0]

\* SessionManager.getSession: localStorage after the call (an expired
\* session is cleared) ...
AfterGetSession(s) ==
  IF s.stored /\ s.expiresAt < s.now THEN clearSession(s) ELSE s

\* ... and whether it returned a session
getSession(s) == AfterGetSession(s).stored

\* SessionManager.isSessionValid
isSessionValid(s) ==
  getSession(s) /\ AfterGetSession(s).expiresAt > s.now

\* SessionManager.extendSession
extendSession(s) ==
  IF getSession(s)
  THEN [AfterGetSession(s) EXCEPT !.expiresAt = s.now + SESSION_DURATION]
  ELSE AfterGetSession(s)

\* if (!this.isSessionValid()) { this.clearSession() }
ClearIfInvalid(s) ==
  IF isSessionValid(s) THEN AfterGetSession(s) ELSE clearSession(s)

\* document.addEventListener / document.removeEventListener: a listener is
\* an event with a function, and functions are told apart by identity
addEventListener(listeners, event, fn) == listeners \cup {<<event, fn>>}
removeEventListener(listeners, event, fn) == listeners \ {<<event, fn>>}

\* the function a call creates: handleActivity of the n-th
\* initSessionCleanup, or the arrow function cleanup() passes
handleActivity(n) == n
NewArrowFunction == 0

\* SessionManager.storeSession
storeSession(s) ==
  [s EXCEPT !.stored = TRUE, !.expiresAt = s.now + SESSION_DURATION]

StoreSession ==
  /\ session' = storeSession(session)
  /\ UNCHANGED <<serverVars, logger, auth, calc>>

\* SessionManager.initSessionCleanup
initSessionCleanup(s) ==
  LET fn == handleActivity(Len(s.lastActivity) + 1)
  IN  [ClearIfInvalid(s) EXCEPT
         !.intervals = @ + 1,
         !.lastActivity = Append(@, s.now),
         !.listeners = @ \cup UNION {addEventListener({}, event, fn) :
                                       event \in activityEvents},
         !.cleaned = FALSE]

InitSessionCleanup ==
  /\ Len(session.lastActivity) < MaxInits
  /\ session' = initSessionCleanup(session)
  /\ UNCHANGED <<serverVars, logger, auth, calc>>

\* SessionManager.cleanup
Cleanup ==
  /\ session' =
       [session EXCEPT
          !.listeners =
             {l \in @ : \A event \in activityEvents :
                          l \in removeEventListener(@, event,
                                                    NewArrowFunction)},
          !.cleaned = TRUE]
  /\ UNCHANGED <<serverVars, logger, auth, calc>>

\* the document dispatches an activity event: every function registered
\* for it runs (handleActivity)
Activity(event) ==
  /\ LET fired ==
           {n \in 1..Len(session.lastActivity) :
              /\ <<event, handleActivity(n)>> \in session.listeners
              /\ session.now - session.lastActivity[n] > activityThreshold}
     IN  session' =
           IF fired = {} THEN session
           ELSE [extendSession(session) EXCEPT
                   !.lastActivity =
                      [n \in 1..Len(session.lastActivity) |->
                         IF n \in fired THEN session.now
                         ELSE session.lastActivity[n]]]
  /\ UNCHANGED <<serverVars, logger, auth, calc>>

\* time passes; the timers set by setInterval run at the new time
Advance(d) ==
  /\ session.advances < MaxAdvances
  /\ LET s == [session EXCEPT !.now = @ + d, !.advances = @ + 1]
     IN  session' = IF s.intervals > 0 THEN ClearIfInvalid(s) ELSE s
  /\ UNCHANGED <<serverVars, logger, auth, calc>>

NextSession ==
  \/ StoreSession
  \/ InitSessionCleanup
  \/ Cleanup
  \/ \E event \in activityEvents : Activity(event)
  \/ \E d \in {cleanupInterval, activityThreshold + 1, SESSION_DURATION} :
       Advance(d)

SpecSession == Init /\ [][NextSession]_vars

\* ------------------------------------------------------ the auth store
\* what authService.getCurrentUser() resolves to (it never rejects)
CurrentUserResults ==
  {[user |-> "u1", error |-> ""], [user |-> "", error |-> ""],
   [user |-> "", error |-> "An unexpected error occurred while getting user"]}

\* authService.onAuthStateChange(callback)
onAuthStateChange(a) == [a EXCEPT !.listeners = @ + 1]

\* initializeAuth up to its return or its await
InitializeAuth ==
  /\ Len(auth.calls) < MaxCalls
  /\ IF auth.isInitialized
     THEN /\ auth' = [auth EXCEPT !.calls = Append(@, "returned")]
          /\ UNCHANGED session
     ELSE IF getSession(session) /\ isSessionValid(session)
     THEN /\ auth' = onAuthStateChange(
                       [auth EXCEPT !.user = "u1", !.loading = FALSE,
                                    !.isInitialized = TRUE, !.error = "",
                                    !.calls = Append(@, "returned")])
          /\ session' = initSessionCleanup(AfterGetSession(session))
     ELSE /\ auth' = [auth EXCEPT !.loading = TRUE,
                                  !.calls = Append(@, "awaiting")]
          /\ session' = AfterGetSession(session)
  /\ UNCHANGED <<serverVars, logger, calc>>

\* initializeAuth from the point where await authService.getCurrentUser()
\* resumes
ResumeInitializeAuth(c, result) ==
  /\ c \in 1..Len(auth.calls)
  /\ IF c \in 1..Len(auth.calls) THEN auth.calls[c] = "awaiting" ELSE FALSE
  /\ session' = IF result.user # ""
                THEN initSessionCleanup(storeSession(session))
                ELSE session
  /\ auth' = onAuthStateChange(
               [auth EXCEPT !.user = result.user, !.error = result.error,
                            !.loading = FALSE, !.isInitialized = TRUE,
                            !.calls[c] = "returned"])
  /\ UNCHANGED <<serverVars, logger, calc>>

NextAuth ==
  \/ StoreSession
  \/ InitializeAuth
  \/ \E c \in 1..MaxCalls, result \in CurrentUserResults :
       ResumeInitializeAuth(c, result)

SpecAuth == Init /\ [][NextAuth]_vars

NextSMS ==
  \/ \E r \in Requests : StartSms(r)
  \/ \E r \in Requests : SmsCheckDuplicate(r)
  \/ \E r \in Requests : SmsInsertParseError(r)
  \/ \E r \in Requests : SmsInsertTransaction(r)
  \/ \E r \in Requests : SmsLogInsertFailure(r)

SpecSMS == Init /\ [][NextSMS]_vars

Next ==
  \/ \E r \in Requests : StartV2(r)
  \/ \E r \in Requests : FindSource(r)
  \/ \E r \in Requests : CreateSource(r)
  \/ \E r \in Requests : GetUsers(r)
  \/ \E r \in Requests : CheckDuplicate(r)
  \/ \E r \in Requests : InsertTransaction(r)
  \/ \E r \in Requests : LookupDuplicate(r)
  \/ \E u \in Users, s \in sources : AddUserSource(u, s.id)
  \/ \E u \in Users, s \in sources : RemoveUserSource(u, s.id)

Spec == Init /\ [][Next]_vars

\* ================================================================ claims
Done(r) == req[r].pc = "done"
Status(r) == req[r].response.status
RowsFor(w) == {t \in v2Transactions : t.webhookId = w}

\* C1: for every webhookId the structured-transaction store holds at most
\* one row after every step, also when createV2Transaction calls interleave
\* between pre-check and insert, and no step removes or changes a stored row.
C1_AtMostOneRowPerWebhookId ==
  [][/\ \A w \in WebhookIds :
          Cardinality({t \in v2Transactions' : t.webhookId = w}) <= 1
     /\ v2Transactions \subseteq v2Transactions']_vars

C1_Witness ==
  \E r \in Requests : /\ req[r].txRefused
                      /\ Cardinality(RowsFor(req[r].webhookId)) = 1

\* C2: a createV2Transaction call whose insert the uniqueness constraint
\* refused returns the 'Duplicate webhook ID' error the pre-check produces.
C2_RefusedInsertReportsDuplicate ==
  \A r \in Requests :
    req[r].txRefused => Includes(req[r].txError, "Duplicate webhook ID")

\* C3: of the requests processV2Webhook handled for one webhookId with
\* healthy storage and an active subscriber, none ends with error, no two
\* end processed, and exactly one delivery of the webhookId is processed.
C3Case(r) ==
  /\ Done(r)
  /\ handler = "repo"
  /\ ~req[r].faulted
  /\ req[r].userIds # {}

C3_ConcurrentOneProcessedOneDuplicate ==
  \A r1, r2 \in Requests :
    (/\ r1 # r2
     /\ C3Case(r1)
     /\ C3Case(r2)
     /\ req[r1].webhookId = req[r2].webhookId)
    => /\ {Status(r1), Status(r2)} \subseteq {"processed", "duplicate"}
       /\ ~(Status(r1) = "processed" /\ Status(r2) = "processed")
       /\ Cardinality({q \in Requests :
                         /\ req[q].webhookId = req[r1].webhookId
                         /\ Status(q) = "processed"}) = 1

C3_Witness ==
  \E r1, r2 \in Requests :
    /\ r1 # r2
    /\ C3Case(r1)
    /\ C3Case(r2)
    /\ req[r1].webhookId = req[r2].webhookId
    /\ req[r2].txRefused
    /\ Status(r1) = "processed"
    /\ Status(r2) = "duplicate"

\* C4: a request that starts after a delivery of the same webhookId was
\* answered processed, finds subscribers and meets no storage failure ends
\* with status duplicate, and exactly one transaction is stored for the id.
C4_SequentialRepeatIsDuplicate ==
  \A r \in Requests :
    (/\ Done(r)
     /\ req[r].sawProcessed
     /\ ~req[r].faulted
     /\ req[r].userIds # {})
    => /\ Status(r) = "duplicate"
       /\ Cardinality(RowsFor(req[r].webhookId)) = 1

C4_Witness ==
  \E r \in Requests :
    /\ Done(r)
    /\ req[r].sawProcessed
    /\ ~req[r].faulted
    /\ req[r].userIds # {}
    /\ handler = "repo"
    /\ Status(r) = "duplicate"

\* C5: a response with status duplicate carries the transactionId of the
\* transaction stored for that webhookId.
C5_DuplicateCarriesTransactionId ==
  \A r \in Requests :
    (Done(r) /\ Status(r) = "duplicate")
    => \E t \in RowsFor(req[r].webhookId) :
         req[r].response.transactionId = t.id

\* C6: two free-text requests with the same webhookId and a parseable
\* message, storage healthy, leave exactly one transaction; one of them ends
\* processed and the other duplicate.
C6Case(r) ==
  /\ sms[r].pc = "done"
  /\ sms[r].parseable
  /\ ~sms[r].faulted

C6_ConcurrentSmsOneProcessedOneDuplicate ==
  \A r1, r2 \in Requests :
    (/\ r1 # r2
     /\ C6Case(r1)
     /\ C6Case(r2)
     /\ sms[r1].webhookId = sms[r2].webhookId)
    => /\ Cardinality(SelectByWebhookId(sms[r1].webhookId)) = 1
       /\ {sms[r1].response.status, sms[r2].response.status}
            = {"processed", "duplicate"}

\* C7: no (sourceType, sourceValue) pair ever has two Source rows, and once
\* a findOrCreateSource call for a pair got past its insert, also a refused
\* one racing another first sighting, the pair has exactly one row.
C7_OneSourceRowPerPair ==
  /\ \A to \in SourceTos :
       Cardinality(SelectSource(InferSourceType(to), to)) <= 1
  /\ \A r \in Requests :
       (req[r].source # 0 \/ req[r].srcRefused)
       => Cardinality(SelectSource(req[r].sourceType, req[r].sourceTo)) = 1

C7_Witness ==
  \E r1, r2 \in Requests :
    /\ r1 # r2
    /\ req[r1].sourceTo = req[r2].sourceTo
    /\ req[r1].srcRefused
    /\ req[r2].source # 0
    /\ Cardinality(SelectSource(req[r1].sourceType, req[r1].sourceTo)) = 1

\* C8: a findOrCreateSource call whose insert the uniqueness constraint
\* refused is a successful find: its request holds the existing Source row
\* and does not end with 'Failed to process source'.
C8_RefusedSourceInsertIsFind ==
  \A r \in Requests :
    req[r].srcRefused
    => /\ req[r].response.error # "Failed to process source"
       /\ \E s \in SelectSource(req[r].sourceType, req[r].sourceTo) :
            req[r].source = s.id

\* C9: a structured webhook whose source has no active subscriber ends with
\* the error 'No users configured for this source', which is none of the
\* storage-failure errors, and it stores no transaction.
StorageFailureErrors ==
  {"Failed to process source", "Failed to find users for source",
   "Failed to create transaction", "Failed to store transaction"}

C9_ZeroSubscribersDistinctOutcome ==
  \A r \in Requests :
    (req[r].usersFetched /\ req[r].userIds = {})
    => /\ Done(r)
       /\ Status(r) = "error"
       /\ req[r].response.error = "No users configured for this source"
       /\ req[r].response.error \notin StorageFailureErrors
       /\ ~ \E t \in v2Transactions : t.by = r

C9_Witness ==
  \E r \in Requests :
    /\ req[r].usersFetched
    /\ req[r].userIds = {}
    /\ Done(r)
    /\ req[r].response.error = "No users configured for this source"

\* C10: a storage failure during source resolution or transaction
\* persistence is answered with a 5xx status and the zero-subscriber outcome
\* with a 4xx status.
C10_StorageFailureIs5xx ==
  \A r \in Requests :
    Done(r)
    => /\ (req[r].faulted /\ req[r].response.error \in StorageFailureErrors)
          => req[r].response.http \in 500..599
       /\ (req[r].response.error = "No users configured for this source")
          => req[r].response.http \in 400..499

\* ------------------------------------------------- envelope claims
Validated == env.pc \in {"accepted", "done"}

BadAuthorization(h) ==
  IF h.authorization = <<>> THEN TRUE
  ELSE \/ h.authorization[1] # "Bearer "
       \/ Tail(h.authorization) # <<WebhookSecret>>

Oversized(url, h) ==
  /\ h.contentLength # NoHeader
  /\ h.contentLength > (IF Includes(url, "/v2/") THEN 20000 ELSE 10000)

Stale(url, h) ==
  /\ h.timestamp.present
  /\ h.timestamp.valid
  /\ h.timestamp.age > (IF Includes(url, "/v2/") THEN 10 ELSE 5) * 60000

WrongContentType(h) == ~Includes(h.contentType, "application/json")

BadBody(e) ==
  /\ e.jsonRead
  /\ \/ ~e.body.json
     \/ Includes(e.url, "/v2/") /\ ~parseV2WebhookPayload(e.body).success

EnvelopeDefect(e) ==
  \/ BadAuthorization(e.headers)
  \/ Oversized(e.url, e.headers)
  \/ Stale(e.url, e.headers)
  \/ WrongContentType(e.headers)
  \/ BadBody(e)

Stores == <<sources, userSources, v2Transactions, transactions, parseErrors>>

\* C11: a request with a bad bearer token, an oversized Content-Length, a
\* wrong Content-Type, a stale X-Timestamp, unparseable JSON or a payload the
\* schema refuses is rejected by validation, the step that validates a
\* request changes no store, and a store changes only while a request that
\* passed validation is processed.
C11_RejectedRequestLeavesStores ==
  [][/\ (env'.pc \in {"accepted", "done"} /\ EnvelopeDefect(env'))
        => (env'.pc = "done" /\ env'.response.status = "error")
     /\ env'.r # env.r => Stores' = Stores
     /\ Stores' # Stores => (env.pc = "processing" /\ env'.pc = "processing")
    ]_vars

C11_Witness ==
  /\ env.pc = "done"
  /\ env.r = 2
  /\ env.headers.authorization = <<"Bearer ", "wrong-token">>
  /\ env.response.error = "Invalid webhook token"
  /\ v2Transactions # {}

\* C12: a free-text request whose message fails parsing ends with the 4xx
\* error 'Parse failed' and stores no transaction; it leaves exactly one
\* ParseError row holding its raw message, the failure reason and its
\* webhookId, or none when writing that row failed, the response being the
\* same in both cases.
ParseFailed(r) ==
  /\ sms[r].pc = "done"
  /\ sms[r].parsed
  /\ ~sms[r].parseable

ParseErrorsOf(r) == {e \in parseErrors : e.by = r}

C12_ParseFailureIsRecorded ==
  \A r \in Requests :
    ParseFailed(r)
    => /\ sms[r].response.status = "error"
       /\ sms[r].response.http \in 400..499
       /\ sms[r].response.error = "Parse failed"
       /\ ~ \E t \in transactions : t.by = r
       /\ IF sms[r].logFailed THEN ParseErrorsOf(r) = {}
          ELSE /\ Cardinality(ParseErrorsOf(r)) = 1
               /\ \A e \in ParseErrorsOf(r) :
                    /\ e.rawMessage = sms[r].message
                    /\ e.webhookId = sms[r].webhookId
                    /\ e.errorReason =
                         parseBancolombiaSMS(sms[r].message).errorReason

C12_Witness ==
  \E r1, r2 \in Requests :
    /\ ParseFailed(r1)
    /\ ParseFailed(r2)
    /\ sms[r1].logFailed
    /\ Cardinality(ParseErrorsOf(r2)) = 1
    /\ sms[r1].response = sms[r2].response

\* the response the request validated last was answered with
Answer ==
  IF env.pc = "done" THEN env.response
  ELSE IF Includes(env.url, "/v2/") THEN req[env.r].response
  ELSE sms[env.r].response

Answered == env.r > 0 /\ Finished

\* C13: every answered POST has one response, whose status is processed,
\* duplicate or error, and a request during which an unexpected exception
\* was raised is answered with HTTP 500 'Internal server error'.
C13_ExceptionIsInternalServerError ==
  Answered
  => /\ Answer.status \in {"processed", "duplicate", "error"}
     /\ env.pc = "done"
        => (req[env.r].response = NoResponse /\ sms[env.r].response = NoResponse)
     /\ env.threw
        => (Answer.http = 500 /\ Answer.error = "Internal server error")

\* C14: a request whose only defect is its Authorization header (absent,
\* not of the Bearer form, or carrying a token other than the secret) is
\* answered with HTTP 401 and its payload is never read.
OnlyAuthorizationDefect ==
  /\ Validated
  /\ ~env.threw
  /\ BadAuthorization(env.headers)
  /\ ~Oversized(env.url, env.headers)
  /\ ~env.headers.timestamp.present

C14_BadAuthorizationIs401 ==
  OnlyAuthorizationDefect
  => /\ env.pc = "done"
     /\ env.response.status = "error"
     /\ env.response.http = 401
     /\ ~env.jsonRead

\* C15: a request whose X-Timestamp is older than the maximum age of its
\* route (5 minutes on the SMS route, 10 minutes on the structured route) is
\* rejected without its payload being read; a request without the header,
\* or whose timestamp is inside the window, is never answered 'Request
\* timestamp too old'.
Fresh(url, h) ==
  \/ ~h.timestamp.present
  \/ /\ h.timestamp.valid
     /\ h.timestamp.age <= (IF Includes(url, "/v2/") THEN 10 ELSE 5) * 60000

C15_StaleTimestampRejected ==
  Validated
  => /\ Stale(env.url, env.headers)
        => /\ env.pc = "done"
           /\ env.response.status = "error"
           /\ ~env.jsonRead
     /\ Fresh(env.url, env.headers)
        => ~(env.pc = "done" /\ env.response.error = "Request timestamp too old")

C15_Witness ==
  /\ env.pc = "done"
  /\ env.url = SmsUrl
  /\ env.headers.timestamp = [present |-> TRUE, valid |-> TRUE, age |-> 300001]
  /\ env.headers.authorization = PlainHeaders.authorization
  /\ env.response.error = "Request timestamp too old"
  /\ ~env.jsonRead

\* C16: of the successive requests of one client address that one server
\* process handles, at most maxRequests get past the rate limit within one
\* window of windowMs.
C16_AtMostMaxRequestsPerWindow == passed.count <= maxRequests

\* C17: the validated payload that parseV2WebhookPayload returns for a
\* valid structured payload without a currency field has currency "COP".
C17_AbsentCurrencyDefaultsToCOP ==
  (/\ env.pc = "accepted"
   /\ Includes(env.url, "/v2/")
   /\ ~env.body.currency.present)
  => /\ parseV2WebhookPayload(env.body).success
     /\ env.webhookData = parseV2WebhookPayload(env.body).data
     /\ env.webhookData.currency = Str(<<"C", "O", "P">>)

\* C18: two routing addresses of the same type whose normalized forms are
\* equal resolve to the same Source row: no two rows of sources have the
\* same type and the same normalized value.
C18_OneSourcePerNormalizedAddress ==
  \A a, b \in sources :
    (/\ a.sourceType = b.sourceType
     /\ normalizeSourceValue(a.sourceValue, a.sourceType)
          = normalizeSourceValue(b.sourceValue, b.sourceType))
    => a = b

\* C19: addUserSource for a pair that has an active association fails with
\* 'User is already associated with this source', adds no row and leaves
\* the rows of user_sources as they were.
ActivePair(u, s) ==
  \E x \in userSources : x.userId = u /\ x.sourceId = s /\ x.isActive

C19_ExistingPairIsRefused ==
  [][\A u \in Users, s \in sources :
       (ActivePair(u, s.id) /\ AddUserSource(u, s.id))
       => /\ admin'.error = "User is already associated with this source"
          /\ userSources' = userSources
    ]_vars

C19_Witness ==
  /\ admin.count > 0
  /\ admin.error = "User is already associated with this source"
  /\ ActivePair("u1", 1)
  /\ Cardinality(userSources) = 1

\* C20: removeUserSource deletes no row of user_sources: every row stays
\* with its id, user and source, the rows of the pair get isActive false and
\* no other row changes, and the user is no longer among
\* getUsersForSource of that source.
C20_RemoveIsSoftDeactivate ==
  [][\A u \in Users, s \in sources :
       RemoveUserSource(u, s.id)
       => /\ Cardinality(userSources') = Cardinality(userSources)
          /\ \A x \in userSources :
               \E y \in userSources' :
                 /\ y.id = x.id
                 /\ y.userId = x.userId
                 /\ y.sourceId = x.sourceId
                 /\ y.isActive = (/\ x.isActive
                                  /\ ~(x.userId = u /\ x.sourceId = s.id))
          /\ ~ \E y \in userSources' :
                 y.userId = u /\ y.sourceId = s.id /\ y.isActive
    ]_vars

C20_Witness ==
  /\ admin.count > 0
  /\ admin.error = ""
  /\ \E x \in userSources :
       x.userId = "u1" /\ x.sourceId = 1 /\ ~x.isActive
  /\ "u1" \notin getUsersForSource(1)

\* C21: every structured request that is answered has logged, by then, a
\* record with an elapsed time that carries its webhookId ('unknown' when
\* the body was never read or has none), whatever NODE_ENV is.
RequestWebhookId ==
  IF env.pc = "done" THEN BodyWebhookId(env.body) ELSE req[env.r].webhookId

C21_TerminalOutcomeIsLogged ==
  (Answered /\ logger.loaded /\ Includes(env.url, "/v2/"))
  => \E record \in RouteLog :
       /\ record.webhookId = RequestWebhookId
       /\ record.responseTime

\* C22: the stored transactionDate and transactionTime, read together in
\* one timezone (UTC or the server's), denote the instant of the payload's
\* timestamp, whatever the offset of the server's timezone.
C22_DateAndTimeDenoteTheInstant ==
  calc.fn = "createV2Transaction"
  => \/ calc.transactionDate * 24 + calc.transactionTime = calc.timestamp
     \/ calc.transactionDate * 24 + calc.transactionTime - calc.offset
          = calc.timestamp

\* C23: the repository-pattern handler and the direct-database handler of
\* the structured route answer alike: a request refused for its headers
\* gets the same HTTP status and fields from both, and so does a request
\* that finds no subscriber for its source.
RepoHeaderAnswer(url, h) ==
  IF validateHeaders(url, h, TRUE) = "" THEN NoResponse
  ELSE RepoValidationResponse(Invalid(validateHeaders(url, h, TRUE)))

RefusedForHeaders ==
  /\ env.pc = "done"
  /\ ~env.threw
  /\ ~env.jsonRead
  /\ Includes(env.url, "/v2/")

C23_HandlersAnswerAlike ==
  /\ RefusedForHeaders
     => RepoHeaderAnswer(env.url, env.headers) = DirectV2Headers(env.headers)
  /\ \A r \in Requests :
       (Done(r) /\ req[r].response.error = "No users configured for this source")
       => NoUsersResponse("repo", req[r].source)
            = NoUsersResponse("direct", req[r].source)

\* C24: a structured request that arrives after a request with the same
\* webhookId and the same sourceTo was processed, and that meets no storage
\* failure, ends with status duplicate, whether or not the source still has
\* an active subscriber.
RepeatsProcessed(r) ==
  /\ Done(r)
  /\ req[r].sawProcessed
  /\ ~req[r].faulted
  /\ \E q \in Requests :
       /\ q # r
       /\ req[q].webhookId = req[r].webhookId
       /\ req[q].sourceTo = req[r].sourceTo
       /\ Status(q) = "processed"

C24_LaterDeliveryIsDuplicate ==
  \A r \in Requests : RepeatsProcessed(r) => Status(r) = "duplicate"

\* C25: addUserSource for a pair without an active association succeeds,
\* also when removeUserSource deactivated the pair before, and the user is
\* then among getUsersForSource of the source; 'User is already associated
\* with this source' is answered only while the pair is active.
Deactivated(u, s) ==
  \E x \in userSources : x.userId = u /\ x.sourceId = s /\ ~x.isActive

C25_AddAfterRemoveSucceeds ==
  [][\A u \in Subscribers, s \in sources :
       (~ActivePair(u, s.id) /\ Subscribe(u, s.id))
       => /\ admin'.error = ""
          /\ \E x \in userSources' :
               x.userId = u /\ x.sourceId = s.id /\ x.isActive
    ]_vars

\* C26: every amount the validator accepts is inserted into
\* v2_transactions.amount without a storage error.
C26_AcceptedAmountIsStorable ==
  (calc.fn = "amount" /\ calc.accepted) => calc.error = ""

\* C27: the sourceId of a duplicate response is the sourceId of the row
\* stored under the request's webhookId, also when the repeated delivery
\* names another sourceTo than the stored one.
C27_DuplicateCarriesStoredSourceId ==
  \A r \in Requests :
    (Done(r) /\ Status(r) = "duplicate")
    => \A t \in RowsFor(req[r].webhookId) :
         req[r].response.sourceId = t.sourceId

\* C28: for every sourceTo the validator accepts, the inferred source type
\* agrees with the shape the validator checked: a value inferred as email
\* has the email shape (no whitespace, one '@' with text before it, and
\* after it text, a dot and text), and a value inferred as phone is '+'
\* followed by 10 to 15 digits.
EmailShape(val) ==
  /\ \A i \in 1..Len(val) : val[i] # " "
  /\ Cardinality({i \in 1..Len(val) : val[i] = "@"}) = 1
  /\ \E p \in 2..Len(val) :
       /\ val[p] = "@"
       /\ \E q \in (p + 2)..(Len(val) - 1) : val[q] = "."

PhoneShape(val) ==
  /\ Len(val) >= 1 + 10
  /\ Len(val) <= 1 + 15
  /\ val[1] = "+"
  /\ \A i \in 2..Len(val) : val[i] \in Digits

C28_InferredTypeAgreesWithShape ==
  (calc.fn = "sourceTo" /\ calc.accepted)
  => /\ calc.sourceType = "email" => EmailShape(calc.sourceTo)
     /\ calc.sourceType = "phone" => PhoneShape(calc.sourceTo)
     /\ calc.sourceType = "webhook"
          => ~Contains(calc.sourceTo, "@") /\ ~StartsWith(calc.sourceTo, "+")

C28_Witness ==
  /\ calc.fn = "sourceTo"
  /\ calc.accepted
  /\ calc.sourceType = "email"
  /\ StartsWith(calc.sourceTo, "+")

\* C29: SessionManager.cleanup() leaves no activity listener registered, and
\* activity after cleanup() (with no initSessionCleanup() in between) no
\* longer changes the expiry of the stored session.
C29_CleanupRemovesListeners ==
  [][/\ Cleanup => session'.listeners = {}
     /\ \A event \in activityEvents :
          (session.cleaned /\ Activity(event))
          => session'.expiresAt = session.expiresAt
    ]_vars

\* C30: once every invocation of initializeAuth has returned, however many
\* there were and however they overlapped, the auth-state-change listener
\* is registered exactly once and the store has isInitialized true and
\* loading false.
AllReturned ==
  /\ auth.calls # <<>>
  /\ \A c \in 1..Len(auth.calls) : auth.calls[c] = "returned"

C30_ListenerRegisteredOnce ==
  AllReturned
  => /\ auth.listeners = 1
     /\ auth.isInitialized
     /\ ~auth.loading

TypeOK ==
  /\ \A r \in Requests : req[r].pc \in
       {"idle", "findSource", "createSource", "getUsers", "checkDuplicate",
        "insertTransaction", "lookupDuplicate", "done"}
  /\ faults \in 0..MaxFaults

====
